---- MODULE Spec2Model ----
(***************************************************************************)
(* Model of chapter13/lenet_with_summary.py: the dataset pipeline built by *)
(* create_dataset, the shape arithmetic of LeNet5.construct, and the       *)
(* training run driven by main (summary writer, optimizer steps).          *)
(*                                                                         *)
(* Three specifications share the module:                                  *)
(*   SpecNet  - LeNet5.construct, statement by statement, on tensor shapes *)
(*   SpecDS   - create_dataset as a streaming pipeline of samples          *)
(*   SpecMain - main: writer, loader, training loop, callback, close       *)
(***************************************************************************)
EXTENDS Integers, Sequences, FiniteSets

\* ------------------------------------------------------------------------
\* Bounds of the model (not program constants)
\* ------------------------------------------------------------------------
MaxBatch == 33
MaxSamples == 3
MaxBatchArg == 2
MaxRepeat == 2
MaxWorkers == 2
MaxTrainSamples == 650
MaxPrefetch == 1

\* ------------------------------------------------------------------------
\* Program constants
\* ------------------------------------------------------------------------
NetBatchSize == 32
ImageSide == 32
NumClasses == 10

VARIABLES
    inB,        \* leading dimension of the tensor handed to construct
    x,          \* construct: shape of the local x
    netLine,    \* construct: number of statements of the body already run
    netPc,      \* construct: "idle" | "running" | "returned" | "raised"
    \* create_dataset(data_path, batch_size, repeat_size, num_parallel_workers)
    nSamples,               \* number of samples stored under data_path
    batch_size,
    repeat_size,
    num_parallel_workers,
    dsSource,       \* MnistDataset: samples of the current pass not yet read
    mapQ,           \* mapQ[i]: output of the i-th map operation, in order
    shuffleBuf,     \* content of the shuffle buffer
    batchAcc,       \* batch operation: the batch being assembled
    dsOut,          \* batches yielded by the returned dataset, in order
    dsPass,         \* repeat operation: number of the current pass
    dsDropped,      \* samples dropped by the batch operation in this pass
    dsPc,           \* "idle" | "running" | "eop" | "done"
    \* main
    fault,          \* what the environment does to this run: "none",
                    \* "bad_path" (no dataset under data_path) or "device"
    mainPc,         \* position in main
    writer,         \* summary_writer: "none" | "open" | "closed"
    ldRemaining,    \* loader: samples of the pass not yet batched
    ldQueue,        \* loader: sizes of the batches ready for the loop
    ldEnded,        \* loader: the pass has ended
    trainPc,        \* position of model.train inside the current step
    cur_step_num,   \* number of the current step (cb_params.cur_step_num)
    curBatch,       \* size of the batch of the current step
    lossStep,       \* step whose loss was computed last
    paramsVer,      \* number of writes made to the network's parameters
    paramWriters,   \* who is writing the parameters right now
    optSteps,       \* number of optimizer updates applied
    pending,        \* summary records collected since the last flush
    flushed,        \* summary records written to summary_dir
    flushLog        \* step numbers at which the callback flushed

netVars == <<inB, x, netLine, netPc>>

dsArgs == <<nSamples, batch_size, repeat_size, num_parallel_workers>>

dsVars == <<nSamples, batch_size, repeat_size, num_parallel_workers,
            dsSource, mapQ, shuffleBuf, batchAcc, dsOut, dsPass, dsDropped,
            dsPc>>

loaderVars == <<ldRemaining, ldQueue, ldEnded>>

stepVars == <<trainPc, cur_step_num, curBatch, lossStep, paramsVer,
              paramWriters, optSteps>>

summaryVars == <<writer, pending, flushed, flushLog>>

mainVars == <<fault, mainPc, loaderVars, stepVars, summaryVars>>

vars == <<netVars, dsVars, mainVars>>

\* ------------------------------------------------------------------------
\* Tensor shapes.  A shape is a sequence of positive integers; ShapeError
\* stands for the exception the framework raises on a shape mismatch.
\* ------------------------------------------------------------------------
ShapeError == <<>>

RECURSIVE NumElements(_)
NumElements(s) == IF s = <<>> THEN 1 ELSE Head(s) * NumElements(Tail(s))

\* Variant of conv: pad_mode="same", which keeps the spatial size
conv_same_pad(s, in_channels, out_channels, kernel_size, stride) ==
    IF s = <<>> \/ Len(s) # 4 THEN <<>>
    ELSE IF s[2] # in_channels THEN <<>>
    ELSE <<s[1], out_channels, s[3], s[4]>>

\* nn.Conv2d(..., pad_mode="valid", has_bias=False) on an NCHW shape
ValidOut(size, kernel_size, stride) == ((size - kernel_size) \div stride) + 1

conv(s, in_channels, out_channels, kernel_size, stride) ==
    IF s = ShapeError \/ Len(s) # 4 THEN ShapeError
    ELSE IF s[2] # in_channels \/ s[3] < kernel_size \/ s[4] < kernel_size
         THEN ShapeError
    ELSE <<s[1], out_channels,
           ValidOut(s[3], kernel_size, stride),
           ValidOut(s[4], kernel_size, stride)>>

\* nn.MaxPool2d(kernel_size=2, stride=2)
max_pool2d(s) ==
    IF s = ShapeError \/ Len(s) # 4 THEN ShapeError
    ELSE IF s[3] < 2 \/ s[4] < 2 THEN ShapeError
    ELSE <<s[1], s[2], ValidOut(s[3], 2, 2), ValidOut(s[4], 2, 2)>>

\* nn.ReLU keeps the shape
relu(s) == s

\* P.Reshape()(x, (self.batch_size, -1)): the -1 dimension is inferred and
\* the call fails when the element count is not a multiple of batch_size
reshape(s) ==
    IF s = ShapeError THEN ShapeError
    ELSE IF NumElements(s) % NetBatchSize # 0 THEN ShapeError
    ELSE <<NetBatchSize, NumElements(s) \div NetBatchSize>>

\* nn.Dense(input_channels, out_channels, weight, bias) on a 2-D shape
fc_with_initialize(s, input_channels, out_channels) ==
    IF s = ShapeError \/ Len(s) # 2 THEN ShapeError
    ELSE IF s[2] # input_channels THEN ShapeError
    ELSE <<s[1], out_channels>>

\* The layers declared by LeNet5.__init__
conv1(s) == conv(s, 1, 6, 5, 1)
conv2(s) == conv(s, 6, 16, 5, 1)
Fc1In == 16 * 5 * 5
fc1(s) == fc_with_initialize(s, Fc1In, 120)
fc2(s) == fc_with_initialize(s, 120, 84)
fc3(s) == fc_with_initialize(s, 84, NumClasses)

\* Declared (input width, output width) of the three dense layers
DenseWidths == << <<Fc1In, 120>>, <<120, 84>>, <<84, NumClasses>> >>

\* The body of LeNet5.construct has 13 statements before the return; the
\* first only records the image summary
NetLines == 13

ConstructLine(i, s) ==
    CASE i = 1  -> s
      [] i = 2  -> conv1(s)
      [] i = 3  -> relu(s)
      [] i = 4  -> max_pool2d(s)
      [] i = 5  -> conv2(s)
      [] i = 6  -> relu(s)
      [] i = 7  -> max_pool2d(s)
      [] i = 8  -> reshape(s)
      [] i = 9  -> fc1(s)
      [] i = 10 -> relu(s)
      [] i = 11 -> fc2(s)
      [] i = 12 -> relu(s)
      [] i = 13 -> fc3(s)

RECURSIVE ConstructFrom(_, _)
ConstructFrom(i, s) ==
    IF s = ShapeError THEN ShapeError
    ELSE IF i > NetLines THEN s
    ELSE ConstructFrom(i + 1, ConstructLine(i, s))

\* LeNet5.construct as a function of the input shape
construct(s) == ConstructFrom(1, s)

InputShape(b) == <<b, 1, ImageSide, ImageSide>>

\* ------------------------------------------------------------------------
\* SpecNet: one call of LeNet5.construct on an input of shape (B, 1, 32, 32)
\* ------------------------------------------------------------------------
NetIdle ==
    /\ inB = 0
    /\ x = ShapeError
    /\ netLine = 0
    /\ netPc = "idle"

\* ------------------------------------------------------------------------
\* create_dataset: samples and the per-sample map operations
\* ------------------------------------------------------------------------
buffer_size == 10000
NumMaps == 4

\* A record as MnistDataset reads it: a 28x28 one-channel image in
\* height-width-channel layout with pixels in 0..255 and an unsigned label.
\* hist is the list of pipeline operations the sample has passed, in order.
RawSample(i) ==
    [id |-> i, label |-> "uint32", height |-> 28, width |-> 28,
     pixMax |-> 255, layout |-> "HWC", hist |-> <<>>]

RECURSIVE RawSamples(_, _)
RawSamples(i, n) ==
    IF i > n THEN <<>> ELSE <<RawSample(i)>> \o RawSamples(i + 1, n)

\* C.TypeCast(mstype.int32) on column "label"
type_cast_op(s) ==
    [s EXCEPT !.label = "int32", !.hist = Append(@, "type_cast")]

\* transforms.Resize((32, 32), interpolation=Inter.LINEAR) on column "image"
resize_op(s) ==
    [s EXCEPT !.height = ImageSide, !.width = ImageSide,
              !.hist = Append(@, "resize")]

\* transforms.Rescale(1.0 / 255.0, 0.0): pixel * rescale + shift
rescale_op(s) ==
    [s EXCEPT !.pixMax = @ \div 255, !.hist = Append(@, "rescale")]

\* transforms.HWC2CHW()
hwc2chw_op(s) ==
    [s EXCEPT !.layout = IF @ = "HWC" THEN "CHW" ELSE "invalid",
              !.hist = Append(@, "hwc2chw")]

\* Variant of MapOp: the layout conversion is mapped before the rescale
MapOpReordered(i, s) ==
    CASE i = 1 -> type_cast_op(s)
      [] i = 2 -> resize_op(s)
      [] i = 3 -> hwc2chw_op(s)
      [] i = 4 -> rescale_op(s)

\* The i-th mnist_ds.map(...) call of create_dataset
MapOp(i, s) ==
    CASE i = 1 -> type_cast_op(s)
      [] i = 2 -> resize_op(s)
      [] i = 3 -> rescale_op(s)
      [] i = 4 -> hwc2chw_op(s)

Mark(s, op) == [s EXCEPT !.hist = Append(@, op)]

MarkAll(b, op) == [k \in 1..Len(b) |-> Mark(b[k], op)]

\* input queue of the i-th map operation
MapIn(i) == IF i = 1 THEN dsSource ELSE mapQ[i - 1]

\* nothing is left upstream of the shuffle operation in this pass
UpstreamDone == dsSource = <<>> /\ \A i \in 1..NumMaps : mapQ[i] = <<>>

\* ------------------------------------------------------------------------
\* SpecDS: the dataset returned by create_dataset, iterated to its end
\* ------------------------------------------------------------------------
MainIdle ==
    /\ fault = "none"
    /\ mainPc = "idle"
    /\ writer = "none"
    /\ ldRemaining = 0
    /\ ldQueue = <<>>
    /\ ldEnded = FALSE
    /\ trainPc = "idle"
    /\ cur_step_num = 0
    /\ curBatch = 0
    /\ lossStep = 0
    /\ paramsVer = 0
    /\ paramWriters = {}
    /\ optSteps = 0
    /\ pending = 0
    /\ flushed = 0
    /\ flushLog = <<>>

DSIdle ==
    /\ nSamples = 0
    /\ batch_size = 1
    /\ repeat_size = 1
    /\ num_parallel_workers = 1
    /\ dsSource = <<>>
    /\ mapQ = [i \in 1..NumMaps |-> <<>>]
    /\ shuffleBuf = {}
    /\ batchAcc = <<>>
    /\ dsOut = <<>>
    /\ dsPass = 0
    /\ dsDropped = 0
    /\ dsPc = "idle"

DSInit ==
    /\ nSamples \in 0..MaxSamples
    /\ batch_size \in 1..MaxBatchArg
    /\ repeat_size \in 1..MaxRepeat
    /\ num_parallel_workers \in 1..MaxWorkers
    /\ dsSource = RawSamples(1, nSamples)
    /\ mapQ = [i \in 1..NumMaps |-> <<>>]
    /\ shuffleBuf = {}
    /\ batchAcc = <<>>
    /\ dsOut = <<>>
    /\ dsPass = 1
    /\ dsDropped = 0
    /\ dsPc = "running"
    /\ NetIdle
    /\ MainIdle

\* a worker of the i-th map operation applies it to the next sample
MapStep(i, w) ==
    /\ dsPc = "running"
    /\ MapIn(i) # <<>>
    /\ IF i = 1
       THEN /\ dsSource' = Tail(dsSource)
            /\ mapQ' = [mapQ EXCEPT ![1] = Append(@, MapOp(1, Head(dsSource)))]
       ELSE /\ UNCHANGED dsSource
            /\ mapQ' = [mapQ EXCEPT
                          ![i] = Append(@, MapOp(i, Head(mapQ[i - 1]))),
                          ![i - 1] = Tail(@)]
    /\ UNCHANGED <<dsArgs, shuffleBuf, batchAcc, dsOut, dsPass, dsDropped,
                   dsPc, netVars, mainVars>>

\* mnist_ds.shuffle(buffer_size): the buffer takes the next mapped sample
ShuffleIn ==
    /\ dsPc = "running"
    /\ mapQ[NumMaps] # <<>>
    /\ Cardinality(shuffleBuf) < buffer_size
    /\ shuffleBuf' = shuffleBuf \cup {Head(mapQ[NumMaps])}
    /\ mapQ' = [mapQ EXCEPT ![NumMaps] = Tail(@)]
    /\ UNCHANGED <<dsArgs, dsSource, batchAcc, dsOut, dsPass, dsDropped,
                   dsPc, netVars, mainVars>>

\* Variant of ShuffleOut: the sample handed on is drawn with replacement,
\* the slot freed is another one
ShuffleOutWithReplacement ==
    /\ dsPc = "running"
    /\ shuffleBuf # {}
    /\ Cardinality(shuffleBuf) = buffer_size \/ UpstreamDone
    /\ Len(batchAcc) < batch_size
    /\ \E s \in shuffleBuf, t \in shuffleBuf :
        /\ shuffleBuf' = shuffleBuf \ {t}
        /\ batchAcc' = Append(batchAcc, Mark(s, "shuffle"))
    /\ UNCHANGED <<dsArgs, dsSource, mapQ, dsOut, dsPass, dsDropped, dsPc,
                   netVars, mainVars>>

\* mnist_ds.shuffle(buffer_size): once the buffer is full, or its input has
\* ended, a sample chosen at random leaves it for the batch operation
ShuffleOut ==
    /\ dsPc = "running"
    /\ shuffleBuf # {}
    /\ Cardinality(shuffleBuf) = buffer_size \/ UpstreamDone
    /\ Len(batchAcc) < batch_size
    /\ \E s \in shuffleBuf :
        /\ shuffleBuf' = shuffleBuf \ {s}
        /\ batchAcc' = Append(batchAcc, Mark(s, "shuffle"))
    /\ UNCHANGED <<dsArgs, dsSource, mapQ, dsOut, dsPass, dsDropped, dsPc,
                   netVars, mainVars>>

\* mnist_ds.batch(batch_size, ...): a full batch is yielded, through the
\* repeat operation, to the consumer
BatchEmit ==
    /\ dsPc = "running"
    /\ Len(batchAcc) = batch_size
    /\ dsOut' = Append(dsOut,
                       [pass |-> dsPass,
                        samples |-> MarkAll(MarkAll(batchAcc, "batch"),
                                            "repeat")])
    /\ batchAcc' = <<>>
    /\ UNCHANGED <<dsArgs, dsSource, mapQ, shuffleBuf, dsPass, dsDropped,
                   dsPc, netVars, mainVars>>

\* Variant of BatchDropRemainder: drop_remainder=False, the last batch of
\* the pass is yielded short
BatchKeepRemainder ==
    /\ dsPc = "running"
    /\ UpstreamDone
    /\ shuffleBuf = {}
    /\ Len(batchAcc) < batch_size
    /\ dsOut' = IF batchAcc = <<>> THEN dsOut
                ELSE Append(dsOut,
                            [pass |-> dsPass,
                             samples |-> MarkAll(MarkAll(batchAcc, "batch"),
                                                 "repeat")])
    /\ dsDropped' = 0
    /\ batchAcc' = <<>>
    /\ dsPc' = "eop"
    /\ UNCHANGED <<dsArgs, dsSource, mapQ, shuffleBuf, dsPass, netVars,
                   mainVars>>

\* Variant of BatchDropRemainder: repeat applied before batch, so that the
\* remainder of a pass is completed by samples of the next pass
BatchCarryRemainder ==
    /\ dsPc = "running"
    /\ UpstreamDone
    /\ shuffleBuf = {}
    /\ Len(batchAcc) < batch_size
    /\ IF dsPass < repeat_size
       THEN dsDropped' = 0 /\ UNCHANGED batchAcc
       ELSE dsDropped' = Len(batchAcc) /\ batchAcc' = <<>>
    /\ dsPc' = "eop"
    /\ UNCHANGED <<dsArgs, dsSource, mapQ, shuffleBuf, dsOut, dsPass,
                   netVars, mainVars>>

\* mnist_ds.batch(batch_size, drop_remainder=True): at the end of the pass
\* the samples that do not fill a batch are discarded
BatchDropRemainder ==
    /\ dsPc = "running"
    /\ UpstreamDone
    /\ shuffleBuf = {}
    /\ Len(batchAcc) < batch_size
    /\ dsDropped' = Len(batchAcc)
    /\ batchAcc' = <<>>
    /\ dsPc' = "eop"
    /\ UNCHANGED <<dsArgs, dsSource, mapQ, shuffleBuf, dsOut, dsPass,
                   netVars, mainVars>>

\* mnist_ds.repeat(repeat_size): the pipeline below is run again
RepeatRestart ==
    /\ dsPc = "eop"
    /\ dsPass < repeat_size
    /\ dsPass' = dsPass + 1
    /\ dsSource' = RawSamples(1, nSamples)
    /\ dsDropped' = 0
    /\ dsPc' = "running"
    /\ UNCHANGED <<dsArgs, mapQ, shuffleBuf, batchAcc, dsOut, netVars, mainVars>>

\* mnist_ds.repeat(repeat_size): after the last pass the dataset is exhausted
RepeatEnd ==
    /\ dsPc = "eop"
    /\ dsPass = repeat_size
    /\ dsPc' = "done"
    /\ UNCHANGED <<dsArgs, dsSource, mapQ, shuffleBuf, batchAcc, dsOut,
                   dsPass, dsDropped, netVars, mainVars>>

DSNext ==
    \/ \E i \in 1..NumMaps, w \in 1..num_parallel_workers : MapStep(i, w)
    \/ ShuffleIn
    \/ ShuffleOut
    \/ BatchEmit
    \/ BatchDropRemainder
    \/ RepeatRestart
    \/ RepeatEnd

SpecDS == DSInit /\ [][DSNext]_vars

\* SpecNet: initial state and steps
NetInit ==
    /\ inB \in 1..MaxBatch
    /\ x = InputShape(inB)
    /\ netLine = 0
    /\ netPc = "running"
    /\ DSIdle
    /\ MainIdle

\* the next statement of construct runs and yields a tensor
NetStep ==
    /\ netPc = "running"
    /\ netLine < NetLines
    /\ ConstructLine(netLine + 1, x) # ShapeError
    /\ x' = ConstructLine(netLine + 1, x)
    /\ netLine' = netLine + 1
    /\ UNCHANGED <<inB, netPc, dsVars, mainVars>>

\* the next statement of construct raises a shape error
NetRaise ==
    /\ netPc = "running"
    /\ netLine < NetLines
    /\ ConstructLine(netLine + 1, x) = ShapeError
    /\ netPc' = "raised"
    /\ UNCHANGED <<inB, x, netLine, dsVars, mainVars>>

\* return x
NetReturn ==
    /\ netPc = "running"
    /\ netLine = NetLines
    /\ netPc' = "returned"
    /\ UNCHANGED <<inB, x, netLine, dsVars, mainVars>>

NetNext == NetStep \/ NetRaise \/ NetReturn

SpecNet == NetInit /\ [][NetNext]_vars

\* ------------------------------------------------------------------------
\* SpecMain: one run of main.  The loader counts the samples instead of
\* telling them apart; a batch is represented by its size.
\* ------------------------------------------------------------------------
main_batch_size == 32
main_repeat_size == 1
flush_step == 10

Faults == {"none", "bad_path", "device"}

\* Every run starts at the first line of main.  main leaves the parallelism
\* hint of create_dataset at its default of 1; the larger hints the
\* parameter admits are covered as well.
MainInit ==
    /\ fault \in Faults
    /\ nSamples \in 0..MaxTrainSamples
    /\ fault = "bad_path" => nSamples = 0
    /\ batch_size = main_batch_size
    /\ repeat_size = main_repeat_size
    /\ num_parallel_workers \in 1..MaxWorkers
    /\ dsSource = <<>>
    /\ mapQ = [i \in 1..NumMaps |-> <<>>]
    /\ shuffleBuf = {}
    /\ batchAcc = <<>>
    /\ dsOut = <<>>
    /\ dsPass = 0
    /\ dsDropped = 0
    /\ dsPc = "idle"
    /\ mainPc = "start"
    /\ writer = "none"
    /\ ldRemaining = 0
    /\ ldQueue = <<>>
    /\ ldEnded = FALSE
    /\ trainPc = "idle"
    /\ cur_step_num = 0
    /\ curBatch = 0
    /\ lossStep = 0
    /\ paramsVer = 0
    /\ paramWriters = {}
    /\ optSteps = 0
    /\ pending = 0
    /\ flushed = 0
    /\ flushLog = <<>>
    /\ NetIdle

\* an uncaught exception ends the process where it is raised
Raise == mainPc' = "raised" /\ trainPc' = "idle"

\* context.set_context, LeNet5(), CrossEntropyLoss(), nn.Momentum, Model
BuildModel ==
    /\ mainPc = "start"
    /\ mainPc' = "built"
    /\ UNCHANGED <<fault, loaderVars, stepVars, summaryVars, dsVars, netVars>>

\* summary_writer = SummaryRecord(...); SummaryStep(summary_writer, 10)
OpenWriter ==
    /\ mainPc = "built"
    /\ writer' = "open"
    /\ mainPc' = "writer_open"
    /\ UNCHANGED <<fault, loaderVars, stepVars, pending, flushed, flushLog,
                   dsVars, netVars>>

\* ds = create_dataset(os.path.join(data_path, "train"), batch_size)
CreateDataset ==
    /\ mainPc = "writer_open"
    /\ ldRemaining' = nSamples
    /\ ldQueue' = <<>>
    /\ ldEnded' = FALSE
    /\ mainPc' = "ds_ready"
    /\ UNCHANGED <<fault, stepVars, summaryVars, dsVars, netVars>>

\* dataset.MnistDataset(data_path) finds no dataset and raises
BadPathAtCreate ==
    /\ mainPc = "writer_open"
    /\ fault = "bad_path"
    /\ Raise
    /\ UNCHANGED <<fault, loaderVars, cur_step_num, curBatch, lossStep,
                   paramsVer, paramWriters, optSteps, summaryVars, dsVars,
                   netVars>>

\* model.train(epoch_size, ds, callbacks=[summary_callback], ...) is entered
TrainStart ==
    /\ mainPc = "ds_ready"
    /\ mainPc' = "training"
    /\ trainPc' = "fetch"
    /\ UNCHANGED <<fault, loaderVars, cur_step_num, curBatch, lossStep,
                   paramsVer, paramWriters, optSteps, summaryVars, dsVars,
                   netVars>>

\* Variant of LoaderProduce: a loader worker other than the first also
\* writes the network's parameters
LoaderProduceWritesParams(w) ==
    /\ mainPc = "training"
    /\ fault # "bad_path"
    /\ ~ldEnded
    /\ ldRemaining >= batch_size
    /\ Len(ldQueue) < MaxPrefetch
    /\ ldRemaining' = ldRemaining - batch_size
    /\ ldQueue' = Append(ldQueue, batch_size)
    /\ paramsVer' = IF w > 1 THEN paramsVer + 1 ELSE paramsVer
    /\ UNCHANGED <<fault, mainPc, ldEnded, trainPc, cur_step_num, curBatch,
                   lossStep, paramWriters, optSteps, summaryVars, dsVars,
                   netVars>>

\* loader: worker w completes the next batch of batch_size samples
LoaderProduce(w) ==
    /\ mainPc = "training"
    /\ fault # "bad_path"
    /\ ~ldEnded
    /\ ldRemaining >= batch_size
    /\ Len(ldQueue) < MaxPrefetch
    /\ ldRemaining' = ldRemaining - batch_size
    /\ ldQueue' = Append(ldQueue, batch_size)
    /\ UNCHANGED <<fault, mainPc, ldEnded, stepVars, summaryVars, dsVars,
                   netVars>>

\* Variant of LoaderDropRemainder: drop_remainder=False, the samples left
\* are yielded as a short batch
LoaderKeepRemainder ==
    /\ mainPc = "training"
    /\ fault # "bad_path"
    /\ ~ldEnded
    /\ ldRemaining < batch_size
    /\ ldRemaining' = 0
    /\ ldQueue' = IF ldRemaining > 0 THEN Append(ldQueue, ldRemaining)
                  ELSE ldQueue
    /\ ldEnded' = TRUE
    /\ UNCHANGED <<fault, mainPc, stepVars, summaryVars, dsVars, netVars>>

\* loader: batch(batch_size, drop_remainder=True) discards what is left
LoaderDropRemainder ==
    /\ mainPc = "training"
    /\ fault # "bad_path"
    /\ ~ldEnded
    /\ ldRemaining < batch_size
    /\ ldRemaining' = 0
    /\ ldEnded' = TRUE
    /\ UNCHANGED <<fault, mainPc, ldQueue, stepVars, summaryVars, dsVars,
                   netVars>>

\* the loop of model.train takes the next batch
FetchBatch ==
    /\ mainPc = "training"
    /\ trainPc = "fetch"
    /\ ldQueue # <<>>
    /\ curBatch' = Head(ldQueue)
    /\ ldQueue' = Tail(ldQueue)
    /\ cur_step_num' = cur_step_num + 1
    /\ trainPc' = "forward"
    /\ UNCHANGED <<fault, mainPc, ldRemaining, ldEnded, lossStep, paramsVer,
                   paramWriters, optSteps, summaryVars, dsVars, netVars>>

\* the dataset pipeline is lazy: the missing dataset raises at the first read
BadPathAtFetch ==
    /\ mainPc = "training"
    /\ trainPc = "fetch"
    /\ fault = "bad_path"
    /\ Raise
    /\ UNCHANGED <<fault, loaderVars, cur_step_num, curBatch, lossStep,
                   paramsVer, paramWriters, optSteps, summaryVars, dsVars,
                   netVars>>

\* network.construct on the batch: the image summary is recorded, then the
\* layers run; a shape mismatch raises
Forward ==
    /\ mainPc = "training"
    /\ trainPc = "forward"
    /\ pending' = pending + 1
    /\ IF construct(InputShape(curBatch)) = ShapeError
       THEN Raise
       ELSE trainPc' = "loss" /\ UNCHANGED mainPc
    /\ UNCHANGED <<fault, loaderVars, cur_step_num, curBatch, lossStep,
                   paramsVer, paramWriters, optSteps, writer, flushed,
                   flushLog, dsVars, netVars>>

\* the device fails while the step runs
DeviceFail ==
    /\ mainPc = "training"
    /\ trainPc = "forward"
    /\ fault = "device"
    /\ Raise
    /\ UNCHANGED <<fault, loaderVars, cur_step_num, curBatch, lossStep,
                   paramsVer, paramWriters, optSteps, summaryVars, dsVars,
                   netVars>>

\* CrossEntropyLoss.construct: the loss of the batch, recorded as a scalar
ComputeLoss ==
    /\ mainPc = "training"
    /\ trainPc = "loss"
    /\ lossStep' = cur_step_num
    /\ pending' = pending + 1
    /\ trainPc' = "update"
    /\ UNCHANGED <<fault, mainPc, loaderVars, cur_step_num, curBatch,
                   paramsVer, paramWriters, optSteps, writer, flushed,
                   flushLog, dsVars, netVars>>

\* nn.Momentum starts to write network.trainable_params()
OptimizerBegin ==
    /\ mainPc = "training"
    /\ trainPc = "update"
    /\ paramWriters' = paramWriters \cup {"optimizer"}
    /\ trainPc' = "updating"
    /\ UNCHANGED <<fault, mainPc, loaderVars, cur_step_num, curBatch,
                   lossStep, paramsVer, optSteps, summaryVars, dsVars,
                   netVars>>

\* nn.Momentum has written the parameters: one optimizer update
OptimizerEnd ==
    /\ mainPc = "training"
    /\ trainPc = "updating"
    /\ paramWriters' = paramWriters \ {"optimizer"}
    /\ paramsVer' = paramsVer + 1
    /\ optSteps' = optSteps + 1
    /\ trainPc' = "step_end"
    /\ UNCHANGED <<fault, mainPc, loaderVars, cur_step_num, curBatch,
                   lossStep, summaryVars, dsVars, netVars>>

\* Variant of StepEnd: the flush leaves the collected records in place
StepEndNoClear ==
    /\ mainPc = "training"
    /\ trainPc = "step_end"
    /\ IF cur_step_num % flush_step = 0
       THEN /\ flushed' = flushed + pending
            /\ flushLog' = Append(flushLog, cur_step_num)
            /\ UNCHANGED pending
       ELSE UNCHANGED <<flushed, pending, flushLog>>
    /\ trainPc' = "fetch"
    /\ UNCHANGED <<fault, mainPc, loaderVars, cur_step_num, curBatch,
                   lossStep, paramsVer, paramWriters, optSteps, writer,
                   dsVars, netVars>>

\* SummaryStep.step_end: every flush_step steps the collected records are
\* written to summary_dir and the collection is emptied
StepEnd ==
    /\ mainPc = "training"
    /\ trainPc = "step_end"
    /\ IF cur_step_num % flush_step = 0
       THEN /\ flushed' = flushed + pending
            /\ pending' = 0
            /\ flushLog' = Append(flushLog, cur_step_num)
       ELSE UNCHANGED <<flushed, pending, flushLog>>
    /\ trainPc' = "fetch"
    /\ UNCHANGED <<fault, mainPc, loaderVars, cur_step_num, curBatch,
                   lossStep, paramsVer, paramWriters, optSteps, writer,
                   dsVars, netVars>>

\* the dataset is exhausted: model.train returns (epoch_size = 1)
TrainReturn ==
    /\ mainPc = "training"
    /\ trainPc = "fetch"
    /\ ldQueue = <<>>
    /\ ldEnded
    /\ mainPc' = "trained"
    /\ trainPc' = "idle"
    /\ UNCHANGED <<fault, loaderVars, cur_step_num, curBatch, lossStep,
                   paramsVer, paramWriters, optSteps, summaryVars, dsVars,
                   netVars>>

\* summary_writer.close()
CloseWriter ==
    /\ mainPc = "trained"
    /\ writer' = "closed"
    /\ mainPc' = "closed"
    /\ UNCHANGED <<fault, loaderVars, stepVars, pending, flushed, flushLog,
                   dsVars, netVars>>

\* print("... Train End ..."); main returns
MainReturn ==
    /\ mainPc = "closed"
    /\ mainPc' = "exited"
    /\ UNCHANGED <<fault, loaderVars, stepVars, summaryVars, dsVars, netVars>>

MainNext ==
    \/ BuildModel
    \/ OpenWriter
    \/ CreateDataset
    \/ BadPathAtCreate
    \/ TrainStart
    \/ \E w \in 1..num_parallel_workers : LoaderProduce(w)
    \/ LoaderDropRemainder
    \/ FetchBatch
    \/ BadPathAtFetch
    \/ Forward
    \/ DeviceFail
    \/ ComputeLoss
    \/ OptimizerBegin
    \/ OptimizerEnd
    \/ StepEnd
    \/ TrainReturn
    \/ CloseWriter
    \/ MainReturn

SpecMain == MainInit /\ [][MainNext]_vars

\* ========================================================================
\* Properties
\* ========================================================================

\* ---- LeNet5.construct (SpecNet) ----------------------------------------

\* C2: for every batch size B >= 1, construct applied to an input of shape
\* (B, 1, 32, 32) ends by returning a tensor of shape (B, 10).
C2_OutputShapeForEveryBatch ==
    netPc \in {"returned", "raised"} =>
        netPc = "returned" /\ x = <<inB, 10>>

\* C8: for an input (batch, 1, 32, 32) the spatial sizes run 32 -> 28 -> 14
\* -> 10 -> 5, the tensor entering and leaving the flatten step holds
\* 16 * 5 * 5 = 400 features per sample, which is the declared input width
\* of fc1, and the dense widths 400 -> 120 -> 84 -> 10 agree at every
\* boundary.
C8_ShapeArithmetic ==
    /\ netLine \in 2..3 => x = <<inB, 6, 28, 28>>
    /\ netLine = 4 => x = <<inB, 6, 14, 14>>
    /\ netLine \in 5..6 => x = <<inB, 16, 10, 10>>
    /\ netLine = 7 => x = <<inB, 16, 5, 5>> /\ x[2] * x[3] * x[4] = 400
    /\ netLine = 8 => NumElements(x) = 400 * inB
    /\ netLine \in 7..8 => NumElements(x) = DenseWidths[1][1] * inB
    /\ netLine \in 9..10 => x[2] = 120
    /\ netLine \in 11..12 => x[2] = 84
    /\ netLine = 13 => x[2] = 10
    /\ DenseWidths[1][1] = 400
    /\ \A k \in 1..2 : DenseWidths[k][2] = DenseWidths[k + 1][1]
    /\ DenseWidths[3][2] = 10

C8_Witness ==
    /\ netPc = "returned"
    /\ inB = 32
    /\ x = <<32, 10>>

\* ---- create_dataset (SpecDS) -------------------------------------------

RECURSIVE FlatIds(_)
FlatIds(bs) ==
    IF bs = <<>> THEN <<>>
    ELSE [k \in 1..Len(Head(bs).samples) |-> Head(bs).samples[k].id]
         \o FlatIds(Tail(bs))

InPass(p, b) == b.pass = p

\* ids of the samples delivered in pass p, in order of delivery
PassIds(p) == FlatIds(SelectSeq(dsOut, LAMBDA b : InPass(p, b)))

Distinct(q) == \A i, j \in 1..Len(q) : i # j => q[i] # q[j]

RECURSIVE SumLen(_, _)
SumLen(f, n) == IF n = 0 THEN 0 ELSE Len(f[n]) + SumLen(f, n - 1)

\* samples of the current pass still inside the pipeline
InFlight ==
    Len(dsSource) + SumLen(mapQ, NumMaps) + Cardinality(shuffleBuf)
    + Len(batchAcc)

PassEnded(p) == p < dsPass \/ dsPc \in {"eop", "done"}

\* C3: every batch yielded holds exactly batch_size samples; nothing is
\* yielded when the source has fewer than batch_size samples.
C3_FullBatchesOnly ==
    /\ \A k \in 1..Len(dsOut) : Len(dsOut[k].samples) = batch_size
    /\ nSamples < batch_size => dsOut = <<>>

C3_Witness ==
    /\ dsPc = "done"
    /\ dsOut # <<>>
    /\ dsDropped > 0

\* C4: the number of batches yielded is repeat_size * floor(N / B): each
\* pass yields floor(N / B) batches and its remainder is not carried into
\* the next pass, so repeat_size = 2 yields twice what repeat_size = 1 does.
C4_BatchCount ==
    /\ \A p \in 1..dsPass :
        PassEnded(p) =>
            Len(SelectSeq(dsOut, LAMBDA b : InPass(p, b)))
                = nSamples \div batch_size
    /\ dsPc = "done" =>
        Len(dsOut) = repeat_size * (nSamples \div batch_size)

C4_Witness ==
    /\ dsPc = "done"
    /\ repeat_size = 2
    /\ nSamples % batch_size # 0
    /\ Len(dsOut) = 2

StageOrder ==
    <<"type_cast", "resize", "rescale", "hwc2chw", "shuffle", "batch",
      "repeat">>

\* C7: every sample passes type cast, resize, rescale, HWC-to-CHW, shuffle,
\* batch, repeat in this order; whatever is in the shuffle buffer or
\* beyond has had all four per-sample transforms applied.
C7_StageOrder ==
    /\ \A i \in 1..NumMaps : \A k \in 1..Len(mapQ[i]) :
        mapQ[i][k].hist = SubSeq(StageOrder, 1, i)
    /\ \A s \in shuffleBuf :
        /\ s.hist = SubSeq(StageOrder, 1, 4)
        /\ s.label = "int32" /\ s.height = 32 /\ s.width = 32
        /\ s.pixMax = 1 /\ s.layout = "CHW"
    /\ \A k \in 1..Len(batchAcc) :
        batchAcc[k].hist = SubSeq(StageOrder, 1, 5)
    /\ \A k \in 1..Len(dsOut) : \A m \in 1..Len(dsOut[k].samples) :
        LET s == dsOut[k].samples[m] IN
        /\ s.hist = StageOrder
        /\ s.label = "int32" /\ s.height = 32 /\ s.width = 32
        /\ s.pixMax = 1 /\ s.layout = "CHW"

C7_Witness ==
    /\ dsOut # <<>>
    /\ batchAcc # <<>>
    /\ shuffleBuf # {}

C1_WriterClosedOnEveryExit ==
    mainPc \in {"exited", "raised"} => writer # "open"

StepInProgress == trainPc \in {"forward", "loss", "update", "updating"}

\* C5: one optimizer update per batch yielded and no others; on a valid
\* dataset of N samples the run does not raise and exits after
\* floor(N / 32) updates (two for 64 samples).
C5_OneUpdatePerBatch ==
    /\ StepInProgress => optSteps = cur_step_num - 1
    /\ trainPc \in {"fetch", "step_end"} => optSteps = cur_step_num
    /\ mainPc \in {"trained", "closed", "exited"} =>
        optSteps = nSamples \div 32
    /\ fault = "none" => mainPc # "raised"
    /\ nSamples = 64 /\ mainPc = "exited" => optSteps = 2

C5_Witness ==
    /\ mainPc = "exited"
    /\ fault = "none"
    /\ nSamples = 64
    /\ optSteps = 2

\* steps whose step_end callback has run
StepsEnded == IF StepInProgress \/ trainPc = "step_end"
              THEN cur_step_num - 1 ELSE cur_step_num

C6_FlushPoints ==
    /\ \A k \in 1..Len(flushLog) : flushLog[k] = 10 * k
    /\ mainPc # "raised" => Len(flushLog) = StepsEnded \div 10
    /\ mainPc \in {"closed", "exited"} => writer = "closed"
    /\ mainPc \in {"ds_ready", "training", "trained"} => writer = "open"

\* C6: the records collected since the previous flush are flushed at
\* exactly the steps that are multiples of 10, each flush empties the
\* collection, the writer is closed once training has completed, and
\* nothing is recorded or flushed after the close.
C6_SummaryLifecycle ==
    /\ []C6_FlushPoints
    /\ [][/\ flushLog' # flushLog =>
              /\ cur_step_num % 10 = 0
              /\ flushed' = flushed + pending
              /\ pending' = 0
          /\ flushed' # flushed => flushLog' # flushLog
          /\ pending' < pending => flushLog' # flushLog
          /\ writer = "closed" =>
              /\ writer' = "closed"
              /\ pending' = pending
              /\ flushed' = flushed]_vars

C6_Witness ==
    /\ mainPc = "exited"
    /\ writer = "closed"
    /\ flushLog = <<10>>
    /\ flushed = 20
    /\ pending > 0

C9_Sequential ==
    /\ paramWriters \subseteq {"optimizer"}
    /\ paramWriters # {} => trainPc = "updating"
    /\ StepInProgress => paramsVer = cur_step_num - 1
    /\ trainPc \in {"fetch", "step_end"} => paramsVer = cur_step_num

\* C9: the parameters are written only by the optimizer, once per step and
\* in sequence: the write of step k follows the loss of batch k and
\* precedes the fetch of batch k+1; with several loader workers no write
\* overlaps another and no loader step writes the parameters.
C9_OptimizerIsOnlyWriter ==
    /\ []C9_Sequential
    /\ [][/\ paramsVer' # paramsVer =>
              /\ paramsVer' = paramsVer + 1
              /\ trainPc = "updating"
              /\ paramWriters = {"optimizer"}
              /\ lossStep = cur_step_num
              /\ UNCHANGED loaderVars
          /\ cur_step_num' # cur_step_num =>
              /\ cur_step_num' = cur_step_num + 1
              /\ paramsVer = cur_step_num
              /\ paramWriters = {}]_vars

C9_Witness ==
    /\ num_parallel_workers > 1
    /\ trainPc = "updating"
    /\ paramWriters = {"optimizer"}
    /\ paramsVer >= 1
    /\ ldQueue # <<>>

====
